---- MODULE Spec2Model ----
(***************************************************************************)
(* Authentication and authorization core of the FastAPI blog backend:      *)
(* the token codec (auth.py create_access_token / verify_token), the       *)
(* three Access Guard stages, the permission check, the credential         *)
(* verifier, the session issuer and the password hasher, and the routes    *)
(* of app.py that hand out tokens and change users, posts and categories   *)
(* (login, /auth/refresh, /auth/me, and the create, update and delete      *)
(* routes of users, posts and categories).                                 *)
(*                                                                         *)
(* Time is counted in whole seconds, the resolution of the exp claim and   *)
(* of the clock jwt.decode compares it with.  Ids are handed out the way   *)
(* the default SQLite database does: one more than the largest id stored.  *)
(***************************************************************************)
EXTENDS Integers, FiniteSets, Sequences, TLC

(* ---------------------------- bounds ----------------------------------- *)
MaxId == 2
MaxTicks == 2
MaxElapse == 1
MaxMinted == 2
MaxPosts == 1
MaxCategories == 5
MaxInflight == 2

(* ------------------------ program constants ---------------------------- *)
SECRET_KEY == "your-secret-key-here-change-in-production"
ALGORITHM == "HS256"
ACCESS_TOKEN_EXPIRE_MINUTES == 30

HTTP_200_OK == 200
HTTP_201_CREATED == 201
HTTP_400_BAD_REQUEST == 400
HTTP_401_UNAUTHORIZED == 401
HTTP_403_FORBIDDEN == 403
HTTP_404_NOT_FOUND == 404
HTTP_422_UNPROCESSABLE_ENTITY == 422
HTTP_500_INTERNAL_SERVER_ERROR == 500

(* ------------------------- input universes ----------------------------- *)
Ids == 1..MaxId
NoUser == 0
OwnerIds == Ids \cup {MaxId + 1, 999}
Usernames == {"admin", "bob_wilson", "eve"}
Emails == {"admin@example.com", "bob@example.com", "eve@example.com"}
NewEmails == {"eve@example.com"}
RawUsernames == {"Eve", "eve!"}
LoginIds == Usernames \cup {"bob@example.com"}
Secrets == {"admin123", "password123"}
NewSecrets == {"password123"}
LongPrefix == "<the same 72 bytes>"
LongSecrets == {"<the same 72 bytes>x", "<the same 72 bytes>y"}
AllSecrets == Secrets \cup LongSecrets
Builds == {"truncates", "rejects"}
Salts == {1, 2}
NewSalts == {2}
None == "<None>"
PostIds == 1..MaxPosts
NoPost == 0
NoCategory == 0
CategoryIds == {1, 99}
CategoryNames == {"tech", "news"}
TickSteps == {1, ACCESS_TOKEN_EXPIRE_MINUTES * 60}
Ttls == {-1, 0, 1, ACCESS_TOKEN_EXPIRE_MINUTES * 60}
OtherKey == "some-other-key"

VARIABLES
  users,    \* the users table: id -> row, for the ids that are stored
  now,      \* the UTC clock, in seconds
  nticks,   \* number of clock steps taken
  minted,   \* tokens handed out by login, with the identity they were minted for
  pre,      \* the users table as it was when the last request arrived
  resp,     \* the last request handled and its response
  codec,    \* last direct call of create_access_token: arguments and result
  vres,     \* last direct call of verify_token: argument, time and result
  perm,     \* last call of check_user_permission: arguments and result
  auth,     \* last call of authenticate_user, create_user_token or the hasher
  posts,    \* the posts table: id -> row
  categories, \* the categories table: id -> row
  preq,     \* the last request for a single post: its id and the posts table on arrival
  build,    \* what the installed bcrypt does with a secret of more than 72 bytes
  inflight  \* requests that have run their queries and not yet their commit

vars == <<users, now, nticks, minted, pre, resp, codec, vres, perm, auth,
          posts, categories, preq, build, inflight>>

(* ------------------------------ helpers -------------------------------- *)
Max(S) == IF S = {} THEN 0 ELSE CHOOSE x \in S : \A y \in S : y <= x
Min(S) == CHOOSE x \in S : \A y \in S : x <= y

(* --------------------------- password hasher --------------------------- *)
\* bcrypt reads at most the first 72 bytes of a secret
Bytes72(password) == IF password \in LongSecrets THEN LongPrefix ELSE password

\* bcrypt 5.0 and later raise ValueError for a secret of more than 72 bytes;
\* earlier releases cut it to 72 bytes without a word
TooLong(password) == build = "rejects" /\ password \in LongSecrets

\* a stored string that is no bcrypt hash
MalformedHash == [salt |-> 0, digest |-> <<>>]

\* get_password_hash has no try/except: the ValueError of hashpw leaves it
get_password_hash_raises(password) == TooLong(password)

\* bcrypt.hashpw, when it returns: the hash string embeds the salt and a
\* digest of (salt, first 72 bytes of the secret)
get_password_hash(password, salt) ==
  [salt |-> salt, digest |-> <<salt, Bytes72(password)>>]

\* bcrypt.checkpw: recompute with the embedded salt and compare; ValueError
\* for a string that is no hash and, where hashpw raises, for a long secret
bcrypt_checkpw(password, hashed_password) ==
  IF hashed_password.salt \notin Salts \/ TooLong(password)
  THEN "ValueError"
  ELSE IF <<hashed_password.salt, Bytes72(password)>> = hashed_password.digest
       THEN "True" ELSE "False"

\* variant: an error inside the check counts as a match
verify_password_true_on_error(plain_password, hashed_password) ==
  bcrypt_checkpw(plain_password, hashed_password) # "False"

\* try: return bcrypt.checkpw(...)  except Exception: return False
verify_password(plain_password, hashed_password) ==
  bcrypt_checkpw(plain_password, hashed_password) = "True"

(* ----------------------------- persistence ----------------------------- *)
\* .first() of the filtered query: the stored row with the lowest id, or none
get_user_by_username(U, username) ==
  LET hit == {i \in DOMAIN U : U[i].username = username}
  IN IF hit = {} THEN NoUser ELSE Min(hit)

get_user_by_email(U, email) ==
  LET hit == {i \in DOMAIN U : U[i].email = email}
  IN IF hit = {} THEN NoUser ELSE Min(hit)

get_user(U, user_id) == IF user_id \in DOMAIN U THEN user_id ELSE NoUser

(* ------------------------------ token codec ---------------------------- *)
\* HMAC over header and payload: equal exactly for equal key, header and payload
Sign(key, header, payload) == <<key, header, payload>>

\* jwt.encode
jwt_encode(payload, key, alg) ==
  [header |-> alg, payload |-> payload, signature |-> Sign(key, alg, payload)]

\* variant: the lifetime is subtracted from the clock instead of added
create_access_token_subtracts(data, expires_delta, t) ==
  LET expire == IF expires_delta # 0
                THEN t - expires_delta
                ELSE t - ACCESS_TOKEN_EXPIRE_MINUTES * 60
  IN jwt_encode([sub |-> data, exp |-> expire], SECRET_KEY, ALGORITHM)

\* "if expires_delta:" is false for None and for a zero timedelta alike
create_access_token(data, expires_delta, t) ==
  LET expire == IF expires_delta # 0
                THEN t + expires_delta
                ELSE t + ACCESS_TOKEN_EXPIRE_MINUTES * 60
  IN jwt_encode([sub |-> data, exp |-> expire], SECRET_KEY, ALGORITHM)

\* variant: the exp claim is not looked at
jwt_decode_ok_ignores_exp(token, key, alg, t) ==
  /\ token.header = alg
  /\ token.signature = Sign(key, token.header, token.payload)

\* variant: a signature made with any key is accepted
jwt_decode_ok_any_key(token, key, alg, t) ==
  /\ token.header = alg
  /\ \E k \in {key, OtherKey} : token.signature = Sign(k, token.header, token.payload)
  /\ ~(token.payload.exp < t)

\* jwt.decode: header, then signature, then exp (expired when exp < now); JWTError -> None
jwt_decode_ok(token, key, alg, t) ==
  /\ token.header = alg
  /\ token.signature = Sign(key, token.header, token.payload)
  /\ ~(token.payload.exp < t)

\* variant: the payload is read without verifying the token
verify_token_trusts_payload(token, t) == token.payload.sub

\* a JWTError of jwt.decode, and a payload without "sub", both give None
verify_token(token, t) ==
  IF jwt_decode_ok(token, SECRET_KEY, ALGORITHM, t)
  THEN token.payload.sub
  ELSE None

(* ----------------------------- access guard ---------------------------- *)
\* an HTTPException raised by a dependency or a handler
HTTPException(status_code, detail) ==
  [status_code |-> status_code, detail |-> detail, user |-> NoUser]

\* a dependency that returns the identity it resolved
Passed(user) == [status_code |-> HTTP_200_OK, detail |-> "", user |-> user]

credentials_exception == HTTPException(HTTP_401_UNAUTHORIZED, "could not validate credentials")

\* variant: a subject that names no stored user falls back to the first user
get_current_user_falls_back(token, U, t) ==
  LET username == verify_token(token, t)
  IN IF username = None
     THEN [status_code |-> HTTP_401_UNAUTHORIZED,
           detail |-> "could not validate credentials", user |-> NoUser]
     ELSE LET user == get_user_by_username(U, username)
          IN [status_code |-> HTTP_200_OK, detail |-> "",
              user |-> IF user = NoUser THEN Min(DOMAIN U) ELSE user]

get_current_user(token, U, t) ==
  LET username == verify_token(token, t)
  IN IF username = None
     THEN credentials_exception
     ELSE LET user == get_user_by_username(U, username)
          IN IF user = NoUser THEN credentials_exception ELSE Passed(user)

\* variant: the is_active test is left out
get_current_active_user_unchecked(token, U, t) == get_current_user(token, U, t)

\* variant: a disabled account is reported with the 401 of stage 1
get_current_active_user_as_401(token, U, t) ==
  LET current_user == get_current_user(token, U, t)
  IN IF current_user.user = NoUser
     THEN current_user
     ELSE IF ~U[current_user.user].is_active
          THEN credentials_exception
          ELSE current_user

get_current_active_user(token, U, t) ==
  LET current_user == get_current_user(token, U, t)
  IN IF current_user.user = NoUser
     THEN current_user
     ELSE IF ~U[current_user.user].is_active
          THEN HTTPException(HTTP_400_BAD_REQUEST, "account disabled")
          ELSE current_user

\* variant: the is_superuser test is left out
get_current_superuser_unchecked(token, U, t) == get_current_active_user(token, U, t)

\* variant: is_superuser is tested before is_active
get_current_superuser_first(token, U, t) ==
  LET current_user == get_current_user(token, U, t)
  IN IF current_user.user = NoUser
     THEN current_user
     ELSE IF ~U[current_user.user].is_superuser
          THEN HTTPException(HTTP_403_FORBIDDEN, "superuser required")
          ELSE get_current_active_user(token, U, t)

get_current_superuser(token, U, t) ==
  LET current_user == get_current_active_user(token, U, t)
  IN IF current_user.user = NoUser
     THEN current_user
     ELSE IF ~U[current_user.user].is_superuser
          THEN HTTPException(HTTP_403_FORBIDDEN, "superuser required")
          ELSE current_user

(* --------------------------- permission check -------------------------- *)
\* variant: the superuser rule is left out
check_user_permission_owner_only(user, resource_owner_id) ==
  user.id = resource_owner_id

check_user_permission(user, resource_owner_id) ==
  user.is_superuser \/ user.id = resource_owner_id

\* variant: nothing is checked
require_permission_skipped(U, user, resource_owner_id) == TRUE

\* variant: the user's own id is passed as the owner id
require_permission_own_id(U, user, resource_owner_id) ==
  check_user_permission([id |-> user, is_superuser |-> U[user].is_superuser], user)

require_permission(U, user, resource_owner_id) ==
  check_user_permission([id |-> user, is_superuser |-> U[user].is_superuser],
                        resource_owner_id)

\* the call of check_user_permission a route makes through require_permission
PermissionCall(U, user, resource_owner_id) ==
  [fn |-> "check_user_permission",
   user |-> [id |-> user, is_superuser |-> U[user].is_superuser],
   resource_owner_id |-> resource_owner_id,
   allow |-> check_user_permission([id |-> user, is_superuser |-> U[user].is_superuser],
                                   resource_owner_id)]

(* -------------------------- credential verifier ------------------------ *)
\* variant: a user that was found is returned whether or not the secret verifies
authenticate_user_skips_verify(U, username, password) ==
  LET byname == get_user_by_username(U, username)
  IN IF byname = NoUser THEN get_user_by_email(U, username) ELSE byname

\* variant: the email lookup comes first
authenticate_user_email_first(U, username, password) ==
  LET byemail == get_user_by_email(U, username)
      user == IF byemail = NoUser THEN get_user_by_username(U, username) ELSE byemail
  IN IF user = NoUser \/ ~verify_password(password, U[user].hashed_password)
     THEN NoUser
     ELSE user

\* variant: an inactive user is treated as not found
authenticate_user_active_only(U, username, password) ==
  LET byname == get_user_by_username(U, username)
      user == IF byname = NoUser THEN get_user_by_email(U, username) ELSE byname
  IN IF user = NoUser \/ ~verify_password(password, U[user].hashed_password)
        \/ ~U[user].is_active
     THEN NoUser
     ELSE user

authenticate_user(U, username, password) ==
  LET byname == get_user_by_username(U, username)
      user == IF byname = NoUser THEN get_user_by_email(U, username) ELSE byname
  IN IF user = NoUser \/ ~verify_password(password, U[user].hashed_password)
     THEN NoUser
     ELSE user

(* ----------------------------- session issuer -------------------------- *)
\* the user summary of the token response
UserSummary(U, user) ==
  [id |-> user, username |-> U[user].username, email |-> U[user].email,
   full_name |-> U[user].full_name, is_active |-> U[user].is_active,
   is_superuser |-> U[user].is_superuser]

\* variant: expires_in is reported in minutes
create_user_token_in_minutes(U, user, t) ==
  [access_token |-> create_access_token(U[user].username,
                                        ACCESS_TOKEN_EXPIRE_MINUTES * 60, t),
   token_type |-> "bearer",
   expires_in |-> ACCESS_TOKEN_EXPIRE_MINUTES,
   user |-> UserSummary(U, user)]

create_user_token(U, user, t) ==
  [access_token |-> create_access_token(U[user].username,
                                        ACCESS_TOKEN_EXPIRE_MINUTES * 60, t),
   token_type |-> "bearer",
   expires_in |-> ACCESS_TOKEN_EXPIRE_MINUTES * 60,
   user |-> UserSummary(U, user)]

(* ------------------------------- tokens -------------------------------- *)
\* a string that does not parse as a compact token, such as the empty string
NullToken == [header |-> "", payload |-> [sub |-> None, exp |-> 0], signature |-> <<>>]

\* what a client without the signing key can build from a token it holds
Forgeries(token) ==
  { [token EXCEPT !.payload.sub = "admin"],
    [token EXCEPT !.payload.exp = @ + ACCESS_TOKEN_EXPIRE_MINUTES * 60],
    jwt_encode(token.payload, OtherKey, ALGORITHM),
    [token EXCEPT !.header = "none"] }

\* bearer credentials a request can carry: the tokens handed out, and a token
\* signed with a key of the client's own
Presentable ==
  {m.tok : m \in minted}
    \cup {jwt_encode([sub |-> "admin", exp |-> 2 * ACCESS_TOKEN_EXPIRE_MINUTES * 60],
                     OtherKey, ALGORITHM)}

\* bookkeeping: the minted entries of a presented token, as they were on arrival
MintOf(token) == {m \in minted : m.tok = token}

Response(route, token, r, guard) ==
  [route |-> route, token |-> token, at |-> now, status_code |-> r.status_code,
   detail |-> r.detail, user |-> guard.user, mint |-> MintOf(token)]

Mint(token, owner) ==
  minted \cup {[tok |-> token, owner |-> owner, deleted |-> FALSE]}

\* routes by the dependency they declare
ActiveRoutes == {"me", "refresh", "update_user"}
SuperRoutes == {"create_user", "delete_user",
                "create_category", "update_category", "delete_category"}
GuardedRoutes == ActiveRoutes \cup SuperRoutes

(* -------------------------------- state -------------------------------- *)
\* the superuser scripts/init_db.py creates, and one regular user
SeedUsers ==
  (1 :> [username |-> "admin", email |-> "admin@example.com", full_name |-> "Admin",
         hashed_password |-> get_password_hash("admin123", 1),
         is_active |-> TRUE, is_superuser |-> TRUE])
  @@
  (2 :> [username |-> "bob_wilson", email |-> "bob@example.com", full_name |-> "Bob Wilson",
         hashed_password |-> get_password_hash("password123", 1),
         is_active |-> TRUE, is_superuser |-> FALSE])

\* the categories scripts/init_db.py creates (technology, life, study, work)
SeedCategories ==
  (1 :> [name |-> "tech"]) @@ (2 :> [name |-> "life"])
    @@ (3 :> [name |-> "study"]) @@ (4 :> [name |-> "work"])

NoCall == [fn |-> "none"]

Slots == 1..MaxInflight
Idle == [route |-> "none"]

Init ==
  /\ build \in Builds
  /\ users = SeedUsers
  /\ now = 0
  /\ nticks = 0
  /\ minted = {}
  /\ pre = SeedUsers
  /\ resp = Response("none", NullToken, Passed(NoUser), Passed(NoUser))
  /\ codec = NoCall
  /\ vres = NoCall
  /\ perm = NoCall
  /\ auth = NoCall
  /\ posts = <<>>
  /\ categories = SeedCategories
  /\ preq = NoCall
  /\ inflight = [slot \in Slots |-> Idle]

pureVars == <<codec, vres, perm>>
envVars == <<build, inflight>>
libVars == <<codec, vres, envVars>>
tableVars == <<posts, categories>>
postVars == <<tableVars, preq>>
storeVars == <<users, minted, pre, resp, auth, postVars, envVars>>

(* -------------------------------- clock -------------------------------- *)
Tick(d) ==
  /\ nticks < MaxTicks
  /\ now' = now + d
  /\ nticks' = nticks + 1
  /\ UNCHANGED <<storeVars, pureVars>>

\* the clock moves past the lifetime of every token handed out so far
Elapse ==
  /\ nticks < MaxElapse
  /\ now' = now + ACCESS_TOKEN_EXPIRE_MINUTES * 60 + 1
  /\ nticks' = nticks + 1
  /\ UNCHANGED <<storeVars, pureVars>>

(* ------------------------------ auth routes ---------------------------- *)
\* variant: a wrong secret for an existing username disables that account
login_locks_out(username, password) ==
  LET user == authenticate_user(users, username, password)
      named == get_user_by_username(users, username)
      r == IF user = NoUser
           THEN HTTPException(HTTP_401_UNAUTHORIZED, "bad username or password")
           ELSE IF ~users[user].is_active
                THEN HTTPException(HTTP_400_BAD_REQUEST, "account disabled")
                ELSE Passed(user)
  IN /\ pre' = users
     /\ resp' = Response("login", NullToken, r, Passed(NoUser))
     /\ minted' = IF r.status_code = HTTP_200_OK
                   THEN Mint(create_user_token(users, user, now).access_token, user)
                   ELSE minted
     /\ Cardinality(minted') <= MaxMinted
     /\ auth' = [fn |-> "authenticate_user", via |-> "login", username |-> username,
                 password |-> password, result |-> user]
     /\ users' = IF user = NoUser /\ named # NoUser
                  THEN [users EXCEPT ![named].is_active = FALSE]
                  ELSE users
     /\ perm' = NoCall
     /\ preq' = NoCall
     /\ UNCHANGED <<now, nticks, libVars, tableVars>>

\* POST /auth/login
login(username, password) ==
  LET user == authenticate_user(users, username, password)
      r == IF user = NoUser
           THEN HTTPException(HTTP_401_UNAUTHORIZED, "bad username or password")
           ELSE IF ~users[user].is_active
                THEN HTTPException(HTTP_400_BAD_REQUEST, "account disabled")
                ELSE Passed(user)
  IN /\ pre' = users
     /\ resp' = Response("login", NullToken, r, Passed(NoUser))
     /\ minted' = IF r.status_code = HTTP_200_OK
                   THEN Mint(create_user_token(users, user, now).access_token, user)
                   ELSE minted
     /\ Cardinality(minted') <= MaxMinted
     /\ auth' = [fn |-> "authenticate_user", via |-> "login", username |-> username,
                 password |-> password, result |-> user]
     /\ perm' = NoCall
     /\ preq' = NoCall
     /\ UNCHANGED <<users, now, nticks, libVars, tableVars>>

\* GET /auth/me
get_current_user_info(token) ==
  LET g == get_current_active_user(token, users, now)
  IN /\ pre' = users
     /\ resp' = Response("me", token, g, g)
     /\ auth' = NoCall
     /\ perm' = NoCall
     /\ preq' = NoCall
     /\ UNCHANGED <<users, minted, now, nticks, libVars, tableVars>>

\* POST /auth/refresh
refresh_token(token) ==
  LET g == get_current_active_user(token, users, now)
  IN /\ pre' = users
     /\ resp' = Response("refresh", token, g, g)
     /\ minted' = IF g.user # NoUser
                   THEN Mint(create_user_token(users, g.user, now).access_token, g.user)
                   ELSE minted
     /\ Cardinality(minted') <= MaxMinted
     /\ auth' = NoCall
     /\ perm' = NoCall
     /\ preq' = NoCall
     /\ UNCHANGED <<users, now, nticks, libVars, tableVars>>

(* ------------------------------ user routes ---------------------------- *)
\* variant: the new row is privileged
crud_create_user_privileged(U, id, username, email, password, salt) ==
  U @@ (id :> [username |-> username, email |-> email, full_name |-> None,
               hashed_password |-> get_password_hash(password, salt),
               is_active |-> TRUE, is_superuser |-> TRUE])

\* crud.create_user: is_active and is_superuser take the column defaults
crud_create_user(U, id, username, email, password, salt) ==
  U @@ (id :> [username |-> username, email |-> email, full_name |-> None,
               hashed_password |-> get_password_hash(password, salt),
               is_active |-> TRUE, is_superuser |-> FALSE])

\* crud.update_user: setattr for every field the request set
crud_update_user(U, user_id, user_update) ==
  [U EXCEPT ![user_id] =
     [username |-> IF "username" \in user_update.fields
                   THEN user_update.username ELSE @.username,
      email |-> IF "email" \in user_update.fields THEN user_update.email ELSE @.email,
      full_name |-> @.full_name,
      hashed_password |-> @.hashed_password,
      is_active |-> IF "is_active" \in user_update.fields
                    THEN user_update.is_active ELSE @.is_active,
      is_superuser |-> @.is_superuser]]

\* crud.delete_user
crud_delete_user(U, user_id) == [i \in DOMAIN U \ {user_id} |-> U[i]]

\* request bodies schemas.UserUpdate accepts: nothing set, a username, or is_active
NoUpdate == [fields |-> {}, username |-> "", email |-> "", is_active |-> TRUE]
UserUpdates ==
  {NoUpdate}
    \cup {[NoUpdate EXCEPT !.fields = {"username"}, !.username = u] : u \in Usernames}
    \cup {[NoUpdate EXCEPT !.fields = {"is_active"}, !.is_active = b] : b \in BOOLEAN}

\* str.lower() on the strings of the model
lower(v) == IF v = "Eve" THEN "eve" ELSE v

\* str.isalnum() of the string without its underscores
isalnum_without_underscores(v) == v \notin {"eve!", "bob@example.com"}

\* UserBase.validate_username: the field value, or the request is refused
validate_username(v) ==
  [ok |-> isalnum_without_underscores(v), value |-> lower(v)]

\* POST /users/, up to the call of crud.create_user: the guard, the request
\* body, the two lookups, and the hashing crud.create_user starts with
create_user_checks(token, raw_username, email, password) ==
  LET g == get_current_superuser(token, users, now)
      id == Max(DOMAIN users) + 1   \* INTEGER PRIMARY KEY without AUTOINCREMENT
      username == validate_username(raw_username).value
  IN IF g.user = NoUser THEN g
     ELSE IF ~validate_username(raw_username).ok
          THEN HTTPException(HTTP_422_UNPROCESSABLE_ENTITY, "username: letters, digits, underscores")
     ELSE IF get_user_by_username(users, username) # NoUser
          THEN HTTPException(HTTP_400_BAD_REQUEST, "username exists")
     ELSE IF get_user_by_email(users, email) # NoUser
          THEN HTTPException(HTTP_400_BAD_REQUEST, "email exists")
     ELSE IF get_password_hash_raises(password)
          THEN HTTPException(HTTP_500_INTERNAL_SERVER_ERROR, "ValueError")
     ELSE [status_code |-> HTTP_201_CREATED, detail |-> "", user |-> id]

\* POST /users/
create_user(token, raw_username, email, password, salt) ==
  LET g == get_current_superuser(token, users, now)
      id == Max(DOMAIN users) + 1
      username == validate_username(raw_username).value
      r == create_user_checks(token, raw_username, email, password)
  IN /\ id <= MaxId
     /\ pre' = users
     /\ resp' = Response("create_user", token, r, g)
     /\ users' = IF r.status_code = HTTP_201_CREATED
                  THEN crud_create_user(users, id, username, email, password, salt)
                  ELSE users
     /\ auth' = NoCall
     /\ perm' = NoCall
     /\ preq' = NoCall
     /\ UNCHANGED <<minted, now, nticks, libVars, tableVars>>

\* PUT /users/{user_id}, up to the call of crud.update_user
update_user_checks(token, user_id, user_update) ==
  LET g == get_current_active_user(token, users, now)
      db_user == get_user(users, user_id)
  IN IF g.user = NoUser THEN g
     ELSE IF db_user = NoUser
          THEN HTTPException(HTTP_404_NOT_FOUND, "user not found")
     ELSE IF ~require_permission(users, g.user, db_user)
          THEN HTTPException(HTTP_403_FORBIDDEN, "permission denied")
     ELSE IF /\ "username" \in user_update.fields
             /\ user_update.username # users[db_user].username
             /\ get_user_by_username(users, user_update.username) # NoUser
          THEN HTTPException(HTTP_400_BAD_REQUEST, "username exists")
     ELSE IF /\ "email" \in user_update.fields
             /\ user_update.email # users[db_user].email
             /\ get_user_by_email(users, user_update.email) # NoUser
          THEN HTTPException(HTTP_400_BAD_REQUEST, "email exists")
     ELSE Passed(db_user)

\* PUT /users/{user_id}
update_user(token, user_id, user_update) ==
  LET g == get_current_active_user(token, users, now)
      db_user == get_user(users, user_id)
      r == update_user_checks(token, user_id, user_update)
      ok == r.status_code = HTTP_200_OK
      stored == IF ok THEN crud_update_user(users, user_id, user_update) ELSE users
      \* response_model=schemas.User runs validate_username on the stored row
      \* after the commit
      sent == IF ok /\ ~validate_username(stored[user_id].username).ok
              THEN HTTPException(HTTP_500_INTERNAL_SERVER_ERROR, "response validation")
              ELSE r
  IN /\ pre' = users
     /\ resp' = Response("update_user", token, sent, g)
     /\ users' = stored
     /\ auth' = NoCall
     /\ perm' = IF g.user # NoUser /\ db_user # NoUser
                THEN PermissionCall(users, g.user, db_user)
                ELSE NoCall
     /\ preq' = NoCall
     /\ UNCHANGED <<minted, now, nticks, libVars, tableVars>>

\* DELETE /users/{user_id}
delete_user(token, user_id) ==
  LET g == get_current_superuser(token, users, now)
      db_user == get_user(users, user_id)
      r == IF g.user = NoUser THEN g
           ELSE IF db_user = NoUser
                THEN HTTPException(HTTP_404_NOT_FOUND, "user not found")
           ELSE IF g.user = user_id
                THEN HTTPException(HTTP_400_BAD_REQUEST, "cannot delete own account")
           \* the flush sets author_id of the user's posts to NULL, the column is
           \* NOT NULL, and the IntegrityError of the commit is not handled
           ELSE IF \E p \in DOMAIN posts : posts[p].author_id = user_id
                THEN HTTPException(HTTP_500_INTERNAL_SERVER_ERROR, "internal server error")
           ELSE Passed(db_user)
      ok == r.status_code = HTTP_200_OK
  IN /\ pre' = users
     /\ resp' = Response("delete_user", token, r, g)
     /\ users' = IF ok THEN crud_delete_user(users, user_id) ELSE users
     /\ minted' = IF ok
                   THEN {IF m.owner = user_id
                         THEN [m EXCEPT !.deleted = TRUE] ELSE m : m \in minted}
                   ELSE minted
     /\ auth' = NoCall
     /\ perm' = NoCall
     /\ preq' = NoCall
     /\ UNCHANGED <<now, nticks, libVars, tableVars>>

(* ------------- user routes, one database statement at a time ----------- *)
\* With several server processes on one database, the statements of two
\* requests interleave: a request runs its guard and its lookups, and its
\* INSERT or UPDATE and commit come later, after statements of other requests.

\* variant: the users table has no UNIQUE constraint
no_unique_constraint(U, id, username, email) == FALSE

\* unique=True on users.username and users.email: the database refuses to
\* write the row of identity id when another row has its username or email
IntegrityError(U, id, username, email) ==
  \E j \in DOMAIN U \ {id} : U[j].username = username \/ U[j].email = email

\* POST /users/: guard, request body and lookups; a request that passes them
\* is left waiting for its commit
create_user_begin(slot, token, raw_username, email, password, salt) ==
  LET g == get_current_superuser(token, users, now)
      r == create_user_checks(token, raw_username, email, password)
  IN /\ inflight[slot] = Idle
     /\ IF r.status_code = HTTP_201_CREATED
        THEN /\ inflight' = [inflight EXCEPT ![slot] =
                               [route |-> "create_user", token |-> token, guard |-> g,
                                username |-> validate_username(raw_username).value,
                                email |-> email, password |-> password, salt |-> salt]]
             /\ UNCHANGED <<pre, resp>>
        ELSE /\ pre' = users
             /\ resp' = Response("create_user", token, r, g)
             /\ UNCHANGED inflight
     /\ auth' = NoCall
     /\ perm' = NoCall
     /\ preq' = NoCall
     /\ UNCHANGED <<users, minted, now, nticks, codec, vres, build, tableVars>>

\* POST /users/: crud.create_user's INSERT and commit
create_user_commit(slot) ==
  LET q == inflight[slot]
      id == Max(DOMAIN users) + 1
      r == IF IntegrityError(users, id, q.username, q.email)
           THEN HTTPException(HTTP_500_INTERNAL_SERVER_ERROR, "IntegrityError")
           ELSE [status_code |-> HTTP_201_CREATED, detail |-> "", user |-> id]
  IN /\ q.route = "create_user"
     /\ id <= MaxId
     /\ inflight' = [inflight EXCEPT ![slot] = Idle]
     /\ pre' = users
     /\ resp' = Response("create_user", q.token, r, q.guard)
     /\ users' = IF r.status_code = HTTP_201_CREATED
                  THEN crud_create_user(users, id, q.username, q.email, q.password, q.salt)
                  ELSE users
     /\ auth' = NoCall
     /\ perm' = NoCall
     /\ preq' = NoCall
     /\ UNCHANGED <<minted, now, nticks, codec, vres, build, tableVars>>

\* PUT /users/{user_id}: guard, lookups and permission check
update_user_begin(slot, token, user_id, user_update) ==
  LET g == get_current_active_user(token, users, now)
      r == update_user_checks(token, user_id, user_update)
  IN /\ inflight[slot] = Idle
     /\ IF r.status_code = HTTP_200_OK
        THEN /\ inflight' = [inflight EXCEPT ![slot] =
                               [route |-> "update_user", token |-> token, guard |-> g,
                                user_id |-> user_id, user_update |-> user_update]]
             /\ UNCHANGED <<pre, resp>>
        ELSE /\ pre' = users
             /\ resp' = Response("update_user", token, r, g)
             /\ UNCHANGED inflight
     /\ auth' = NoCall
     /\ perm' = NoCall
     /\ preq' = NoCall
     /\ UNCHANGED <<users, minted, now, nticks, codec, vres, build, tableVars>>

\* PUT /users/{user_id}: crud.update_user's second lookup, UPDATE and commit
update_user_commit(slot) ==
  LET q == inflight[slot]
      db_user == get_user(users, q.user_id)
      row == crud_update_user(users, q.user_id, q.user_update)[q.user_id]
      r == IF db_user = NoUser
           THEN HTTPException(HTTP_500_INTERNAL_SERVER_ERROR, "response validation")
           ELSE IF IntegrityError(users, q.user_id, row.username, row.email)
           THEN HTTPException(HTTP_500_INTERNAL_SERVER_ERROR, "IntegrityError")
           ELSE Passed(db_user)
      ok == r.status_code = HTTP_200_OK
      sent == IF ok /\ ~validate_username(row.username).ok
              THEN HTTPException(HTTP_500_INTERNAL_SERVER_ERROR, "response validation")
              ELSE r
  IN /\ q.route = "update_user"
     /\ inflight' = [inflight EXCEPT ![slot] = Idle]
     /\ pre' = users
     /\ resp' = Response("update_user", q.token, sent, q.guard)
     /\ users' = IF ok THEN crud_update_user(users, q.user_id, q.user_update) ELSE users
     /\ auth' = NoCall
     /\ perm' = NoCall
     /\ preq' = NoCall
     /\ UNCHANGED <<minted, now, nticks, codec, vres, build, tableVars>>

(* ------------------------------ post routes ---------------------------- *)
get_post(P, post_id) == IF post_id \in DOMAIN P THEN post_id ELSE NoPost

get_category(C, category_id) == category_id \in DOMAIN C

\* crud.create_post
crud_create_post(P, id, post, author_id) ==
  P @@ (id :> [title |-> post.title, category_id |-> post.category_id,
               author_id |-> author_id])

\* crud.update_post: setattr for every field the request set
crud_update_post(P, post_id, post_update) ==
  [P EXCEPT ![post_id] =
     [title |-> IF "title" \in post_update.fields THEN post_update.title ELSE @.title,
      category_id |-> IF "category_id" \in post_update.fields
                      THEN post_update.category_id ELSE @.category_id,
      author_id |-> @.author_id]]

\* crud.delete_post
crud_delete_post(P, post_id) == [i \in DOMAIN P \ {post_id} |-> P[i]]

\* request bodies schemas.PostCreate accepts
PostCreates == {[title |-> "draft", category_id |-> c] : c \in {NoCategory} \cup CategoryIds}

\* request bodies schemas.PostUpdate accepts: nothing set, or a category
NoPostUpdate == [fields |-> {}, title |-> "", category_id |-> NoCategory]
PostUpdates ==
  {NoPostUpdate}
    \cup {[NoPostUpdate EXCEPT !.fields = {"category_id"}, !.category_id = c] :
            c \in CategoryIds}

PostRequest(post_id) == [fn |-> "post", post_id |-> post_id, posts |-> posts]

\* POST /posts/
create_post(token, post) ==
  LET g == get_current_active_user(token, users, now)
      id == Max(DOMAIN posts) + 1
      r == IF g.user = NoUser THEN g
           ELSE IF post.category_id # NoCategory /\ ~get_category(categories, post.category_id)
                THEN HTTPException(HTTP_404_NOT_FOUND, "category not found")
           ELSE [status_code |-> HTTP_201_CREATED, detail |-> "", user |-> g.user]
  IN /\ id <= MaxPosts
     /\ pre' = users
     /\ resp' = Response("create_post", token, r, g)
     /\ preq' = PostRequest(id)
     /\ posts' = IF r.status_code = HTTP_201_CREATED
                  THEN crud_create_post(posts, id, post, g.user)
                  ELSE posts
     /\ auth' = NoCall
     /\ perm' = NoCall
     /\ UNCHANGED <<users, categories, minted, now, nticks, libVars>>

\* PUT /posts/{post_id}
update_post(token, post_id, post_update) ==
  LET g == get_current_active_user(token, users, now)
      db_post == get_post(posts, post_id)
      r == IF g.user = NoUser THEN g
           ELSE IF db_post = NoPost
                THEN HTTPException(HTTP_404_NOT_FOUND, "post not found")
           ELSE IF ~require_permission(users, g.user, posts[db_post].author_id)
                THEN HTTPException(HTTP_403_FORBIDDEN, "permission denied")
           ELSE IF /\ "category_id" \in post_update.fields
                   /\ post_update.category_id # NoCategory
                   /\ ~get_category(categories, post_update.category_id)
                THEN HTTPException(HTTP_404_NOT_FOUND, "category not found")
           ELSE Passed(g.user)
  IN /\ pre' = users
     /\ resp' = Response("update_post", token, r, g)
     /\ preq' = PostRequest(post_id)
     /\ posts' = IF r.status_code = HTTP_200_OK
                  THEN crud_update_post(posts, post_id, post_update)
                  ELSE posts
     /\ auth' = NoCall
     /\ perm' = IF g.user # NoUser /\ db_post # NoPost
                THEN PermissionCall(users, g.user, posts[db_post].author_id)
                ELSE NoCall
     /\ UNCHANGED <<users, categories, minted, now, nticks, libVars>>

\* DELETE /posts/{post_id}
delete_post(token, post_id) ==
  LET g == get_current_active_user(token, users, now)
      db_post == get_post(posts, post_id)
      r == IF g.user = NoUser THEN g
           ELSE IF db_post = NoPost
                THEN HTTPException(HTTP_404_NOT_FOUND, "post not found")
           ELSE IF ~require_permission(users, g.user, posts[db_post].author_id)
                THEN HTTPException(HTTP_403_FORBIDDEN, "permission denied")
           ELSE Passed(g.user)
  IN /\ pre' = users
     /\ resp' = Response("delete_post", token, r, g)
     /\ preq' = PostRequest(post_id)
     /\ posts' = IF r.status_code = HTTP_200_OK
                  THEN crud_delete_post(posts, post_id)
                  ELSE posts
     /\ auth' = NoCall
     /\ perm' = IF g.user # NoUser /\ db_post # NoPost
                THEN PermissionCall(users, g.user, posts[db_post].author_id)
                ELSE NoCall
     /\ UNCHANGED <<users, categories, minted, now, nticks, libVars>>

(* ---------------------------- category routes -------------------------- *)
get_category_by_name(C, name) ==
  LET hit == {i \in DOMAIN C : C[i].name = name}
  IN IF hit = {} THEN NoCategory ELSE Min(hit)

crud_create_category(C, id, category) == C @@ (id :> [name |-> category.name])

crud_update_category(C, category_id, category_update) ==
  [C EXCEPT ![category_id].name =
     IF "name" \in category_update.fields THEN category_update.name ELSE @]

\* the functions crud.py defines for categories and for counting
CrudFunctions ==
  {"get_category", "get_category_by_name", "get_categories", "get_active_categories",
   "create_category", "update_category", "delete_category",
   "get_user_count", "get_post_count", "get_published_post_count", "get_user_post_count"}

\* request bodies schemas.CategoryCreate and schemas.CategoryUpdate accept
CategoryCreates == {[name |-> n] : n \in CategoryNames}
NoCategoryUpdate == [fields |-> {}, name |-> ""]
CategoryUpdates ==
  {NoCategoryUpdate}
    \cup {[NoCategoryUpdate EXCEPT !.fields = {"name"}, !.name = n] : n \in CategoryNames}

\* POST /categories/
create_category(token, category) ==
  LET g == get_current_superuser(token, users, now)
      id == Max(DOMAIN categories) + 1
      r == IF g.user = NoUser THEN g
           ELSE IF get_category_by_name(categories, category.name) # NoCategory
                THEN HTTPException(HTTP_400_BAD_REQUEST, "category name exists")
           ELSE [status_code |-> HTTP_201_CREATED, detail |-> "", user |-> g.user]
  IN /\ id <= MaxCategories
     /\ pre' = users
     /\ resp' = Response("create_category", token, r, g)
     /\ categories' = IF r.status_code = HTTP_201_CREATED
                       THEN crud_create_category(categories, id, category)
                       ELSE categories
     /\ auth' = NoCall
     /\ perm' = NoCall
     /\ preq' = [fn |-> "category", category_id |-> id]
     /\ UNCHANGED <<users, posts, minted, now, nticks, libVars>>

\* PUT /categories/{category_id}
update_category(token, category_id, category_update) ==
  LET g == get_current_superuser(token, users, now)
      r == IF g.user = NoUser THEN g
           ELSE IF ~get_category(categories, category_id)
                THEN HTTPException(HTTP_404_NOT_FOUND, "category not found")
           ELSE IF /\ "name" \in category_update.fields
                   /\ category_update.name # categories[category_id].name
                   /\ get_category_by_name(categories, category_update.name) # NoCategory
                THEN HTTPException(HTTP_400_BAD_REQUEST, "category name exists")
           ELSE Passed(g.user)
  IN /\ pre' = users
     /\ resp' = Response("update_category", token, r, g)
     /\ categories' = IF r.status_code = HTTP_200_OK
                       THEN crud_update_category(categories, category_id, category_update)
                       ELSE categories
     /\ auth' = NoCall
     /\ perm' = NoCall
     /\ preq' = [fn |-> "category", category_id |-> category_id]
     /\ UNCHANGED <<users, posts, minted, now, nticks, libVars>>

\* DELETE /categories/{category_id}: for a category that exists the handler
\* calls crud.get_posts_count_by_category, which crud.py does not define; the
\* AttributeError is not handled, and the lines after the call (the 400 for
\* a category with posts, crud.delete_category, the success message) are
\* never reached
delete_category(token, category_id) ==
  LET g == get_current_superuser(token, users, now)
      r == IF g.user = NoUser THEN g
           ELSE IF ~get_category(categories, category_id)
                THEN HTTPException(HTTP_404_NOT_FOUND, "category not found")
           ELSE IF "get_posts_count_by_category" \notin CrudFunctions
                THEN HTTPException(HTTP_500_INTERNAL_SERVER_ERROR, "AttributeError")
           ELSE Passed(g.user)
  IN /\ pre' = users
     /\ resp' = Response("delete_category", token, r, g)
     /\ auth' = NoCall
     /\ perm' = NoCall
     /\ preq' = [fn |-> "category", category_id |-> category_id]
     /\ UNCHANGED <<users, posts, categories, minted, now, nticks, libVars>>

(* ------------------------- direct library calls ------------------------ *)
\* Each call records its arguments and result; records of earlier, unrelated
\* calls are dropped.
CallCreateAccessToken(data, expires_delta) ==
  /\ codec' = [fn |-> "create_access_token", data |-> data,
               expires_delta |-> expires_delta, at |-> now,
               token |-> create_access_token(data, expires_delta, now)]
  /\ vres' = NoCall
  /\ perm' = NoCall
  /\ UNCHANGED <<storeVars, now, nticks>>

CallVerifyToken(token) ==
  /\ vres' = [fn |-> "verify_token", token |-> token, at |-> now,
              result |-> verify_token(token, now)]
  /\ perm' = NoCall
  /\ UNCHANGED <<storeVars, now, nticks, codec>>

CallCheckPermission(user, resource_owner_id) ==
  /\ perm' = [fn |-> "check_user_permission", user |-> user,
              resource_owner_id |-> resource_owner_id,
              allow |-> check_user_permission(user, resource_owner_id)]
  /\ codec' = NoCall
  /\ vres' = NoCall
  /\ UNCHANGED <<storeVars, now, nticks>>

\* authenticate_user called on the store as it stands
CallAuthenticateUser(username, password) ==
  /\ auth' = [fn |-> "authenticate_user", via |-> "direct", username |-> username,
              password |-> password,
              result |-> authenticate_user(users, username, password)]
  /\ UNCHANGED <<users, minted, pre, resp, postVars, now, nticks, pureVars, envVars>>

\* create_user_token called for a stored user
CallCreateUserToken(user) ==
  /\ auth' = [fn |-> "create_user_token", user |-> user, at |-> now,
              result |-> create_user_token(users, user, now)]
  /\ UNCHANGED <<users, minted, pre, resp, postVars, now, nticks, pureVars, envVars>>

\* get_password_hash called twice for one secret, and verify_password on both
\* results; bcrypt.gensalt() draws 16 random bytes per call, and a draw that
\* repeats an earlier one is not among the outcomes modelled
CallGetPasswordHash(password) ==
  /\ \E s1 \in Salts : \E s2 \in Salts \ {s1} :
       LET raised == get_password_hash_raises(password)
           first == IF raised THEN MalformedHash ELSE get_password_hash(password, s1)
           second == IF raised THEN MalformedHash ELSE get_password_hash(password, s2)
       IN auth' = [fn |-> "get_password_hash", password |-> password,
                   raised |-> raised,
                   first |-> first, second |-> second,
                   ok1 |-> ~raised /\ verify_password(password, first),
                   ok2 |-> ~raised /\ verify_password(password, second)]
  /\ UNCHANGED <<users, minted, pre, resp, postVars, now, nticks, pureVars, envVars>>

\* the strings a password column can hold: what get_password_hash returned
\* for some secret, or a string that is no hash (secret None)
StoredHashes ==
  {[secret |-> s, hashed_password |-> get_password_hash(s, salt)] :
     s \in {x \in AllSecrets : ~get_password_hash_raises(x)}, salt \in Salts}
  \cup {[secret |-> None, hashed_password |-> MalformedHash]}

\* verify_password on a secret and a stored string
CallVerifyPassword(plain_password, stored) ==
  /\ auth' = [fn |-> "verify_password", plain_password |-> plain_password,
              secret |-> stored.secret, hashed_password |-> stored.hashed_password,
              checkpw |-> bcrypt_checkpw(plain_password, stored.hashed_password),
              result |-> verify_password(plain_password, stored.hashed_password)]
  /\ UNCHANGED <<users, minted, pre, resp, postVars, now, nticks, pureVars, envVars>>

(* ---------------------------- specifications --------------------------- *)
Next ==
  \/ Elapse
  \/ \E u \in LoginIds, p \in Secrets : login(u, p)
  \/ \E t \in Presentable : get_current_user_info(t)
  \/ \E t \in Presentable, u \in Usernames, e \in NewEmails, p \in NewSecrets, s \in NewSalts :
        create_user(t, u, e, p, s)
  \/ \E t \in Presentable, i \in Ids, up \in UserUpdates : update_user(t, i, up)
  \/ \E t \in Presentable, i \in Ids : delete_user(t, i)

Spec == Init /\ [][Next]_vars

NextCodec ==
  \/ \E d \in TickSteps : Tick(d)
  \/ \E data \in Usernames \cup {None}, ttl \in Ttls : CallCreateAccessToken(data, ttl)
  \/ \E t \in {NullToken} \cup (IF codec = NoCall THEN {}
                                  ELSE {codec.token} \cup Forgeries(codec.token)) :
        CallVerifyToken(t)
  \/ \E u \in [id : Ids, is_superuser : BOOLEAN], o \in OwnerIds :
        CallCheckPermission(u, o)

SpecCodec == Init /\ [][NextCodec]_vars

\* UserUpdate.username has no validator, so a username can be set to a
\* string that is another user's email
EmailAsUsername == "bob@example.com"

\* stores the superuser's PUT /users/{user_id} requests lead to: its own
\* username set to the other user's email or not, and either account
\* disabled or not
AuthStores ==
  {[SeedUsers EXCEPT ![1].username = n, ![1].is_active = a, ![2].is_active = b] :
     n \in {"admin", EmailAsUsername}, a \in BOOLEAN, b \in BOOLEAN}

InitAuth ==
  /\ build \in Builds
  /\ users \in AuthStores
  /\ pre = users
  /\ now = 0
  /\ nticks = 0
  /\ minted = {}
  /\ resp = Response("none", NullToken, Passed(NoUser), Passed(NoUser))
  /\ codec = NoCall
  /\ vres = NoCall
  /\ perm = NoCall
  /\ auth = NoCall
  /\ posts = <<>>
  /\ categories = SeedCategories
  /\ preq = NoCall
  /\ inflight = [slot \in Slots |-> Idle]

\* the credential verifier, the session issuer and the hasher called on
\* these stores, and the login route
NextAuth ==
  \/ \E u \in LoginIds, p \in Secrets : login(u, p)
  \/ \E u \in LoginIds, p \in Secrets : CallAuthenticateUser(u, p)
  \/ \E i \in DOMAIN users : CallCreateUserToken(i)
  \/ \E p \in AllSecrets : CallGetPasswordHash(p)
  \/ \E p \in AllSecrets, h \in StoredHashes : CallVerifyPassword(p, h)

SpecAuth == InitAuth /\ [][NextAuth]_vars

\* request bodies that set is_active or nothing
FlagUpdates == {up \in UserUpdates : "username" \notin up.fields}

\* the routes that change a single post or a single user record
NextPosts ==
  \/ \E u \in LoginIds, p \in Secrets : login(u, p)
  \/ \E t \in Presentable, b \in PostCreates : create_post(t, b)
  \/ \E t \in Presentable, i \in PostIds, up \in PostUpdates : update_post(t, i, up)
  \/ \E t \in Presentable, i \in PostIds : delete_post(t, i)
  \/ \E t \in Presentable, i \in Ids, up \in FlagUpdates : update_user(t, i, up)
  \/ \E t \in Presentable, i \in Ids : delete_user(t, i)

SpecPosts == Init /\ [][NextPosts]_vars

\* every route that writes to the users, posts or categories table
NextWrites ==
  \/ \E u \in {"admin", "bob_wilson"}, p \in Secrets : login(u, p)
  \/ \E t \in Presentable, e \in NewEmails, p \in NewSecrets, s \in NewSalts :
        create_user(t, "eve", e, p, s)
  \/ \E t \in Presentable, i \in Ids, up \in FlagUpdates : update_user(t, i, up)
  \/ \E t \in Presentable, i \in Ids : delete_user(t, i)
  \/ \E t \in Presentable, b \in PostCreates : create_post(t, b)
  \/ \E t \in Presentable, i \in PostIds, up \in PostUpdates : update_post(t, i, up)
  \/ \E t \in Presentable, i \in PostIds : delete_post(t, i)
  \/ \E t \in Presentable, c \in CategoryCreates : create_category(t, c)
  \/ \E t \in Presentable, i \in CategoryIds, up \in CategoryUpdates :
        update_category(t, i, up)
  \/ \E t \in Presentable, i \in CategoryIds : delete_category(t, i)

SpecWrites == Init /\ [][NextWrites]_vars

\* the store right after create_default_superuser: the superuser alone
InitRace ==
  /\ build \in Builds
  /\ users = [i \in {1} |-> SeedUsers[i]]
  /\ pre = users
  /\ now = 0
  /\ nticks = 0
  /\ minted = {}
  /\ resp = Response("none", NullToken, Passed(NoUser), Passed(NoUser))
  /\ codec = NoCall
  /\ vres = NoCall
  /\ perm = NoCall
  /\ auth = NoCall
  /\ posts = <<>>
  /\ categories = SeedCategories
  /\ preq = NoCall
  /\ inflight = [slot \in Slots |-> Idle]

\* request bodies that set the username or the email
RaceUpdates ==
  {[NoUpdate EXCEPT !.fields = {"username"}, !.username = u] : u \in {"bob_wilson", "eve"}}
    \cup {[NoUpdate EXCEPT !.fields = {"email"}, !.email = e] : e \in NewEmails}

\* a new request takes the first slot that is free
FreeSlot ==
  LET free == {slot \in Slots : inflight[slot] = Idle}
  IN IF free = {} THEN {} ELSE {Min(free)}

\* create_user and update_user requests whose statements interleave
NextRace ==
  \/ login("admin", "admin123")
  \/ \E slot \in FreeSlot, t \in Presentable, u \in {"bob_wilson", "eve"},
        e \in NewEmails, p \in NewSecrets, s \in NewSalts :
        create_user_begin(slot, t, u, e, p, s)
  \/ \E slot \in Slots : create_user_commit(slot)
  \/ \E slot \in FreeSlot, t \in Presentable, i \in Ids, up \in RaceUpdates :
        update_user_begin(slot, t, i, up)
  \/ \E slot \in Slots : update_user_commit(slot)

SpecRace == InitRace /\ [][NextRace]_vars

\* sessions opened and renewed while the clock runs and accounts are
\* disabled and enabled
NextSession ==
  \/ Tick(1)
  \/ \E u \in LoginIds, p \in Secrets : login(u, p)
  \/ \E t \in Presentable : refresh_token(t)
  \/ \E t \in Presentable, i \in Ids, up \in FlagUpdates : update_user(t, i, up)

SpecSession == Init /\ [][NextSession]_vars

\* request bodies that set the username to a string UserUpdate accepts
NameUpdates ==
  {[NoUpdate EXCEPT !.fields = {"username"}, !.username = u] : u \in RawUsernames}

\* users created, renamed and deleted through the API
NextNames ==
  \/ \E u \in LoginIds, p \in Secrets : login(u, p)
  \/ \E t \in Presentable, u \in RawUsernames, e \in NewEmails, p \in NewSecrets, s \in NewSalts :
        create_user(t, u, e, p, s)
  \/ \E t \in Presentable, i \in Ids, up \in NameUpdates : update_user(t, i, up)
  \/ \E t \in Presentable, i \in Ids : delete_user(t, i)

SpecNames == Init /\ [][NextNames]_vars

(* ======================= properties: pure functions ==================== *)

\* C1: check_user_permission allows exactly when the user is a superuser or its
\* id equals the resource owner's id, for every combination of flag, id and
\* owner id, and the call changes neither the store nor the tokens handed out.
C1_PermissionRule ==
  [][(perm' # perm /\ perm'.fn = "check_user_permission") =>
       /\ perm'.allow = (perm'.user.is_superuser
                          \/ perm'.user.id = perm'.resource_owner_id)
       /\ UNCHANGED <<users, minted, now>>]_vars

\* a regular user was checked against a foreign owner id and denied
C1_Witness ==
  /\ perm.fn = "check_user_permission"
  /\ ~perm.user.is_superuser
  /\ perm.user.id # perm.resource_owner_id
  /\ ~perm.allow

\* C4: for every ttl, zero included, the token carries expiry = now + ttl, and
\* a token minted with ttl = 0 is invalid when verified one second later.
C4_ExpiryIsNowPlusTtl ==
  /\ codec.fn = "create_access_token" =>
        codec.token.payload.exp = codec.at + codec.expires_delta
  /\ (/\ codec.fn = "create_access_token" /\ vres.fn = "verify_token"
      /\ vres.token = codec.token
      /\ codec.expires_delta = 0
      /\ vres.at = codec.at + 1) => vres.result = None

\* C9: for every username and positive ttl, verify_token applied at once to the
\* token create_access_token returned gives back exactly that username.
C9_RoundTrip ==
  (/\ codec.fn = "create_access_token" /\ vres.fn = "verify_token"
   /\ codec.data \in Usernames
   /\ codec.expires_delta > 0
   /\ vres.token = codec.token
   /\ vres.at = codec.at) => vres.result = codec.data

C9_Witness ==
  /\ codec.fn = "create_access_token" /\ vres.fn = "verify_token"
  /\ codec.data \in Usernames
  /\ codec.expires_delta > 0
  /\ vres.token = codec.token
  /\ vres.at = codec.at
  /\ vres.result = codec.data

\* C10: verify_token gives None for every token whose exp lies before the
\* current time, with a valid signature as much as with an invalid one.
C10_ExpiredIsInvalid ==
  (vres.fn = "verify_token" /\ vres.token.payload.exp < vres.at) =>
     vres.result = None

\* an expired token was verified whose header and signature are in order
C10_Witness ==
  /\ vres.fn = "verify_token"
  /\ vres.token.payload.exp < vres.at
  /\ vres.token.header = ALGORITHM
  /\ vres.token.signature = Sign(SECRET_KEY, vres.token.header, vres.token.payload)
  /\ vres.result = None

\* C11: verify_token gives None for every token signed with a secret other
\* than SECRET_KEY, whatever its subject and whatever its expiry.
C11_OtherSecretIsInvalid ==
  (/\ vres.fn = "verify_token"
   /\ \E k \in {OtherKey} :
        vres.token.signature = Sign(k, vres.token.header, vres.token.payload)) =>
     vres.result = None

\* an unexpired token that names a user and is signed with another secret
\* was verified and found invalid
C11_Witness ==
  /\ vres.fn = "verify_token"
  /\ vres.token.signature = Sign(OtherKey, vres.token.header, vres.token.payload)
  /\ vres.token.header = ALGORITHM
  /\ vres.token.payload.sub \in Usernames
  /\ ~(vres.token.payload.exp < vres.at)
  /\ vres.result = None

Guarded == resp.route \in GuardedRoutes

\* what verify_token made of the presented token when the request arrived
Subject == verify_token(resp.token, resp.at)

\* the stored identities whose username was the token's subject on arrival
Named == {i \in DOMAIN pre : pre[i].username = Subject}

AuthenticationFailure ==
  /\ resp.status_code = HTTP_401_UNAUTHORIZED
  /\ resp.detail = "could not validate credentials"
  /\ resp.user = NoUser

AccountDisabled ==
  /\ resp.status_code = HTTP_400_BAD_REQUEST
  /\ resp.detail = "account disabled"
  /\ resp.user = NoUser

Forbidden ==
  /\ resp.status_code = HTTP_403_FORBIDDEN
  /\ resp.detail = "superuser required"
  /\ resp.user = NoUser

\* C5: stage 1 rejects with one and the same 401 when verify_token gives None
\* or no stored identity has the subject as username, and produces no identity;
\* otherwise the request is not rejected by stage 1 and the identity the guard
\* hands on is the one whose username equals the subject.
C5_StageOne ==
  Guarded =>
    IF Subject = None \/ Named = {}
    THEN AuthenticationFailure
    ELSE /\ ~AuthenticationFailure
         /\ resp.user # NoUser => resp.user \in Named

\* a correctly signed, unexpired token whose subject names no stored identity
\* was rejected with the 401
C5_Witness ==
  /\ Guarded /\ Subject # None /\ Named = {}
  /\ AuthenticationFailure

\* C6: an identity that passed stage 1 with is_active false is rejected with
\* 400 "account disabled", which is not the 401 of stage 1; one with is_active
\* true is not, and on a route that asks for no more it is handed on.
C6_StageTwo ==
  (Guarded /\ Subject # None /\ Named # {}) =>
    \A i \in Named :
      IF ~pre[i].is_active
      THEN AccountDisabled /\ ~AuthenticationFailure
      ELSE /\ ~AccountDisabled
           /\ resp.route \in ActiveRoutes => resp.user = i

C6_Witness ==
  /\ Guarded /\ Subject # None
  /\ \E i \in Named : ~pre[i].is_active
  /\ AccountDisabled

\* C7: on a route that requires privilege, an active identity with
\* is_superuser false is rejected with 403, and an active superuser is handed
\* on as the authorized identity.
C7_StageThree ==
  (resp.route \in SuperRoutes /\ Subject # None) =>
    \A i \in Named :
      pre[i].is_active =>
        IF ~pre[i].is_superuser THEN Forbidden ELSE resp.user = i

C7_Witness ==
  /\ resp.route \in SuperRoutes /\ Subject # None
  /\ \E i \in Named : pre[i].is_active /\ ~pre[i].is_superuser
  /\ Forbidden

\* C8: the stages run in the order token, active, privileged. An identity is
\* handed to the route only if every required stage passed; an invalid token
\* gives the 401 whatever the flags of the identity it names; an inactive
\* identity gives AccountDisabled, never Forbidden, also when it is not
\* privileged; Forbidden is reported only for an active identity.
C8_StageOrder ==
  Guarded =>
    /\ resp.user # NoUser =>
          /\ Subject # None /\ resp.user \in Named
          /\ pre[resp.user].is_active
          /\ resp.route \in SuperRoutes => pre[resp.user].is_superuser
    /\ Subject = None => AuthenticationFailure
    /\ (Subject # None /\ \E i \in Named : ~pre[i].is_active) =>
          AccountDisabled /\ ~Forbidden
    /\ Forbidden => (Subject # None /\ \E i \in Named : pre[i].is_active)

\* an inactive identity without privilege asked for a superuser route and
\* was told its account is disabled
C8_Witness ==
  /\ resp.route \in SuperRoutes /\ Subject # None
  /\ \E i \in Named : ~pre[i].is_active /\ ~pre[i].is_superuser
  /\ AccountDisabled

(* ===================== properties: permission check ==================== *)
\* the posts and the user records a step updates or deletes, and their owners
PostsChanged == {p \in DOMAIN posts : p \notin DOMAIN posts' \/ posts'[p] # posts[p]}
UsersChanged == {i \in DOMAIN users : i \notin DOMAIN users' \/ users'[i] # users[i]}
OwnersOfChanged == {posts[p].author_id : p \in PostsChanged} \cup UsersChanged

\* check_user_permission allows the stored identity u for the owner id
Allows(u, owner) ==
  /\ u \in DOMAIN users
  /\ check_user_permission([id |-> u, is_superuser |-> users[u].is_superuser], owner)

\* C17 as stated: every step that updates or deletes a post or a user record
\* has called check_user_permission for the requesting identity and the
\* owner id of that record, and the call allowed.
C17_EveryMutationCallsCheck ==
  [][\A o \in OwnersOfChanged :
        /\ resp'.user \in DOMAIN users
        /\ perm' = PermissionCall(users, resp'.user, o)
        /\ perm'.allow]_vars

\* C17, amended: no post and no user record is updated or deleted on behalf
\* of an identity for which check_user_permission denies. The routes that
\* update a post or a user record or delete a post get there by calling the
\* check with the owner id; the route that deletes a user record makes no
\* such call and asks for a superuser instead.
C17_MutationOnlyIfAllowed ==
  [][\A o \in OwnersOfChanged :
        /\ Allows(resp'.user, o)
        /\ IF resp'.route = "delete_user"
           THEN users[resp'.user].is_superuser /\ perm' = NoCall
           ELSE perm' = PermissionCall(users, resp'.user, o) /\ perm'.allow]_vars

\* a regular user updated a post of its own, after the check allowed it
C17_Witness ==
  /\ resp.route = "update_post" /\ resp.status_code = HTTP_200_OK
  /\ posts # preq.posts
  /\ perm.fn = "check_user_permission" /\ perm.allow
  /\ ~perm.user.is_superuser
  /\ perm.user.id = preq.posts[preq.post_id].author_id

\* C18: when an active identity that is not a superuser asks to update or
\* delete a post whose author_id is not its id, the answer is 403 and the
\* posts and the users are as they were when the request arrived.
C18_ForeignPostIsForbidden ==
  (resp.route \in {"update_post", "delete_post"} /\ Subject # None) =>
    \A i \in Named :
      (/\ pre[i].is_active /\ ~pre[i].is_superuser
       /\ preq.post_id \in DOMAIN preq.posts
       /\ preq.posts[preq.post_id].author_id # i) =>
         /\ resp.status_code = HTTP_403_FORBIDDEN
         /\ resp.detail = "permission denied"
         /\ posts = preq.posts
         /\ users = pre
         /\ categories = SeedCategories

\* a regular user asked to delete the superuser's post and was refused
C18_Witness ==
  /\ resp.route = "delete_post" /\ Subject # None
  /\ \E i \in Named :
        /\ pre[i].is_active /\ ~pre[i].is_superuser
        /\ preq.post_id \in DOMAIN preq.posts
        /\ preq.posts[preq.post_id].author_id # i
  /\ resp.status_code = HTTP_403_FORBIDDEN
  /\ posts = preq.posts

(* ==================== properties: credential verifier ================== *)
\* the stored identities whose username, or whose email, is the login
\* identifier of the last authenticate_user call
ByUsername == {i \in DOMAIN users : users[i].username = auth.username}
ByEmail == {i \in DOMAIN users : users[i].email = auth.username}

\* the secret of the last authenticate_user call verifies against identity i
SecretMatches(i) == verify_password(auth.password, users[i].hashed_password)

\* the identities the login identifier stands for: by username, else by email
Candidates == IF ByUsername # {} THEN ByUsername ELSE ByEmail

\* the login route's answer to credentials that do not authenticate
CredentialMismatch ==
  /\ resp.route = "login"
  /\ resp.status_code = HTTP_401_UNAUTHORIZED
  /\ resp.detail = "bad username or password"
  /\ resp.user = NoUser

\* C13: authenticate_user gives None when no identity matches the login
\* identifier and when one matches but the secret does not verify; the value
\* is the same in both cases, and the login route answers both with one and
\* the same 401.
C13_FailuresLookAlike ==
  auth.fn = "authenticate_user" =>
    LET nomatch == ByUsername \cup ByEmail = {}
        wrongsecret == Candidates # {} /\ \A i \in Candidates : ~SecretMatches(i)
    IN (nomatch \/ wrongsecret) =>
         /\ auth.result = NoUser
         /\ auth.via = "login" => CredentialMismatch

\* a login with an existing username and a wrong secret got the 401
C13_Witness ==
  /\ auth.fn = "authenticate_user" /\ auth.via = "login"
  /\ ByUsername # {} /\ \A i \in ByUsername : ~SecretMatches(i)
  /\ auth.result = NoUser
  /\ CredentialMismatch

\* C14: when an identity has the login identifier as username, the result is
\* decided by that identity alone: the identity if the secret verifies against
\* it, None if not, also when another identity has the identifier as email and
\* a matching secret. When none has it as username, the identity that has it
\* as email decides in the same way.
C14_UsernameBeforeEmail ==
  auth.fn = "authenticate_user" =>
    /\ \A i \in ByUsername :
          auth.result = IF SecretMatches(i) THEN i ELSE NoUser
    /\ ByUsername = {} =>
          \A i \in ByEmail : auth.result = IF SecretMatches(i) THEN i ELSE NoUser

\* one identity has the identifier as username and another secret, another
\* has it as email and the secret given: the result is None
C14_Witness ==
  /\ auth.fn = "authenticate_user"
  /\ \E i \in ByUsername : ~SecretMatches(i)
  /\ \E j \in ByEmail \ ByUsername : SecretMatches(j)
  /\ auth.result = NoUser

\* C15: for an identity whose is_active is false, a matching login identifier
\* and secret give that identity, as they do for an active one.
C15_ActiveFlagNotConsulted ==
  auth.fn = "authenticate_user" =>
    \A i \in Candidates : SecretMatches(i) => auth.result = i

\* an inactive identity was authenticated
C15_Witness ==
  /\ auth.fn = "authenticate_user"
  /\ \E i \in Candidates : ~users[i].is_active /\ SecretMatches(i) /\ auth.result = i

(* ====================== properties: password hasher ==================== *)
\* C20: for every secret, two calls of get_password_hash give two different
\* hash strings, and verify_password accepts the secret against each of them.
C20_HashTwice ==
  auth.fn = "get_password_hash" =>
    /\ auth.first # auth.second
    /\ auth.ok1
    /\ auth.ok2

\* C21: for two different secrets s1 and s2,
\* verify_password(s1, get_password_hash(s2)) is false.
C21_OtherSecretRejected ==
  (/\ auth.fn = "verify_password"
   /\ auth.secret # None
   /\ auth.plain_password # auth.secret) => ~auth.result

\* C22: verify_password returns a boolean for every secret and every stored
\* string, and false whenever the check inside it raised.
C22_ErrorsGiveFalse ==
  auth.fn = "verify_password" =>
    /\ auth.result \in BOOLEAN
    /\ auth.checkpw = "ValueError" => auth.result = FALSE

\* verify_password was given a stored string that is no hash, the check
\* raised, and the answer was false
C22_Witness ==
  /\ auth.fn = "verify_password"
  /\ auth.hashed_password = MalformedHash
  /\ auth.checkpw = "ValueError"
  /\ auth.result = FALSE

\* verify_password was given a secret bcrypt refuses, the check raised, and
\* the answer was false
C22_LongSecretWitness ==
  /\ auth.fn = "verify_password"
  /\ auth.hashed_password # MalformedHash
  /\ auth.checkpw = "ValueError"
  /\ auth.result = FALSE

(* ====================== properties: session issuer ===================== *)
\* C19: create_user_token gives token_type "bearer", expires_in equal to
\* ACCESS_TOKEN_EXPIRE_MINUTES * 60, which is the lifetime of the token it
\* returns, a token whose subject is the username of the identity, and a
\* summary with id, username, email, full name, is_active and is_superuser
\* and without the password hash; it does so for an inactive identity too.
C19_TokenResponse ==
  auth.fn = "create_user_token" =>
    LET r == auth.result
        u == users[auth.user]
    IN /\ r.token_type = "bearer"
       /\ r.expires_in = ACCESS_TOKEN_EXPIRE_MINUTES * 60
       /\ r.access_token.payload.exp = auth.at + r.expires_in
       /\ verify_token(r.access_token, auth.at) = u.username
       /\ DOMAIN r.user =
            {"id", "username", "email", "full_name", "is_active", "is_superuser"}
       /\ r.user.id = auth.user
       /\ \A f \in DOMAIN r.user \ {"id"} : r.user[f] = u[f]

\* a token was minted for an inactive identity
C19_Witness ==
  /\ auth.fn = "create_user_token"
  /\ ~users[auth.user].is_active
  /\ verify_token(auth.result.access_token, auth.at) = users[auth.user].username
  /\ auth.result.token_type = "bearer"

(* ========================= properties: frame =========================== *)
\* C16: the operations of the auth core leave the users table as it was when
\* the request arrived, whether they pass or fail: a login (authenticate_user
\* and create_user_token), a request that only goes through the guard, a
\* request the guard rejects at any of its stages, and a request
\* check_user_permission denies.
C16_AuthCoreLeavesStore ==
  /\ resp.route \in {"login", "me"} => users = pre
  /\ (Guarded /\ resp.user = NoUser) => users = pre
  /\ (perm.fn = "check_user_permission" /\ ~perm.allow) => users = pre

\* a wrong secret was given for a stored username in a store that updates
\* have changed, and the store is as it was
C16_Witness ==
  /\ resp.route = "login" /\ CredentialMismatch
  /\ auth.fn = "authenticate_user" /\ ByUsername # {}
  /\ users # SeedUsers
  /\ users = pre

(* ================== properties: tokens and the store =================== *)
\* the identities, still stored on arrival, for which the presented token was minted
Holders == {m.owner : m \in {x \in resp.mint : ~x.deleted /\ x.owner \in DOMAIN pre}}

\* C2 as stated, read in its favour (the identity is still stored and its flag
\* is still false when the request arrives): a correctly signed, unexpired
\* token minted for an identity that has been disabled is turned away with
\* AccountDisabled and no route handler runs.
C2_DisabledIsAccountDisabled ==
  (Guarded /\ Subject # None /\ \E i \in Holders : ~pre[i].is_active) =>
     AccountDisabled

\* C2, amended: as long as the disabled identity still holds the username the
\* token names, every request with that token is turned away at the Active
\* stage with AccountDisabled and no route handler runs.
C2_DisabledHolderIsAccountDisabled ==
  (/\ Guarded /\ Subject # None
   /\ \E i \in Holders : ~pre[i].is_active /\ pre[i].username = Subject) =>
     AccountDisabled

\* a token minted while its identity was active was presented after the
\* identity had been disabled, and was turned away
C2_Witness ==
  /\ Guarded /\ Subject # None
  /\ \E i \in Holders : ~pre[i].is_active /\ pre[i].username = Subject
  /\ AccountDisabled

\* C3: once the identity a token was minted for has been deleted, a request
\* presenting that token, correctly signed and unexpired, gets the 401 of an
\* invalid token; its subject resolves to no identity.
C3_DeletedNeverResolves ==
  (Guarded /\ Subject # None /\ \E m \in resp.mint : m.deleted) =>
     AuthenticationFailure

\* C25: a request presenting a token that was minted for the identity with
\* id i is never resolved by the Access Guard to an identity with another id,
\* whatever was renamed, deleted or created in between.
C25_ResolvesToMintedId ==
  (Guarded /\ resp.user # NoUser) => \A m \in resp.mint : m.owner = resp.user

(* ====================== properties: failure taxonomy =================== *)
FailureCategories == {"CredentialMismatch", "TokenInvalid", "AccountDisabled", "Forbidden"}

\* the auth check that failed first while the last request was handled,
\* read from the store as it was on arrival
FailedCheck ==
  IF resp.route = "none" THEN "none"
  ELSE IF resp.route = "login"
  THEN IF auth.result = NoUser THEN "CredentialMismatch"
       ELSE IF ~pre[auth.result].is_active THEN "AccountDisabled" ELSE "none"
  ELSE IF Subject = None \/ Named = {} THEN "TokenInvalid"
  ELSE IF ~pre[Min(Named)].is_active THEN "AccountDisabled"
  ELSE IF resp.route \in SuperRoutes /\ ~pre[Min(Named)].is_superuser THEN "Forbidden"
  ELSE IF perm # NoCall /\ ~perm.allow THEN "Forbidden"
  ELSE "none"

\* what the client sees of each category: the status code and the detail
Surfaces(category) ==
  CASE category = "CredentialMismatch" ->
         /\ resp.status_code = HTTP_401_UNAUTHORIZED
         /\ resp.detail = "bad username or password"
    [] category = "TokenInvalid" ->
         /\ resp.status_code = HTTP_401_UNAUTHORIZED
         /\ resp.detail = "could not validate credentials"
    [] category = "AccountDisabled" ->
         /\ resp.status_code = HTTP_400_BAD_REQUEST
         /\ resp.detail = "account disabled"
    [] category = "Forbidden" ->
         /\ resp.status_code = HTTP_403_FORBIDDEN
         /\ resp.detail \in {"superuser required", "permission denied"}

SurfacedAs == {c \in FailureCategories : Surfaces(c)}

C23_WitnessCredentialMismatch ==
  FailedCheck = "CredentialMismatch" /\ resp.status_code = HTTP_401_UNAUTHORIZED

C23_WitnessTokenInvalid ==
  FailedCheck = "TokenInvalid" /\ resp.status_code = HTTP_401_UNAUTHORIZED

C23_WitnessAccountDisabled ==
  /\ FailedCheck = "AccountDisabled"
  /\ resp.route # "login"
  /\ resp.status_code = HTTP_400_BAD_REQUEST

C23_WitnessLoginDisabled ==
  /\ FailedCheck = "AccountDisabled"
  /\ resp.route = "login"
  /\ resp.status_code = HTTP_400_BAD_REQUEST

C23_WitnessSuperuserRequired ==
  /\ FailedCheck = "Forbidden"
  /\ resp.route \in SuperRoutes
  /\ resp.detail = "superuser required"

(* ========================= properties: usernames ======================= *)
\* a username UserBase.validate_username would return unchanged
Normalised(username) ==
  validate_username(username).ok /\ validate_username(username).value = username

\* C24: after any sequence of user creations and user updates through the
\* API, every stored username is lowercase and made of letters, digits and
\* underscores only.
C24_UsernamesNormalised ==
  \A i \in DOMAIN users : Normalised(users[i].username)

(* ======================== properties: session routes =================== *)
\* one step of the login and refresh routes
MintsOnlyForActive ==
  /\ \A m \in minted' \ minted :
        ~m.deleted => (m.owner \in DOMAIN users /\ users[m.owner].is_active)
  /\ (resp'.route = "login" /\ auth'.fn = "authenticate_user") =>
        \A i \in Candidates' :
          ~users'[i].is_active =>
            /\ minted' = minted
            /\ IF SecretMatches(i)'
               THEN /\ resp'.status_code = HTTP_400_BAD_REQUEST
                    /\ resp'.detail = "account disabled"
               ELSE CredentialMismatch'

\* C26: login and refresh mint a token only for an identity that is active
\* when the request is handled; login with the matching secret of an inactive
\* identity is answered with AccountDisabled and no token, and login with a
\* non-matching secret for an inactive identity with the 401 of
\* CredentialMismatch and no token.
C26_MintsOnlyForActive == [][MintsOnlyForActive]_vars

\* login with the matching secret of a disabled identity was refused with 400
C26_Witness ==
  /\ resp.route = "login"
  /\ auth.fn = "authenticate_user"
  /\ \E i \in Candidates : ~users[i].is_active /\ SecretMatches(i)
  /\ resp.status_code = HTTP_400_BAD_REQUEST

\* login with a wrong secret for a disabled identity was refused with 401
C26_WitnessWrongSecret ==
  /\ resp.route = "login"
  /\ auth.fn = "authenticate_user"
  /\ \E i \in Candidates : ~users[i].is_active /\ ~SecretMatches(i)
  /\ resp.status_code = HTTP_401_UNAUTHORIZED

\* a refresh minted a second token for an active identity
C26_WitnessRefreshed ==
  /\ resp.route = "refresh"
  /\ resp.status_code = HTTP_200_OK
  /\ \E m \in minted : m.owner = resp.user /\ m.tok # resp.token

\* a refresh with the token of a disabled identity was refused
C26_WitnessRefreshRefused ==
  /\ resp.route = "refresh"
  /\ resp.status_code = HTTP_400_BAD_REQUEST
  /\ resp.mint # {}

(* ======================= properties: privileged flag =================== *)
Privileged(U) == {i \in DOMAIN U : U[i].is_superuser}

\* one step: no stored identity's flag changes, and a new one is not privileged
PrivilegedFlagKept ==
  /\ \A i \in DOMAIN users \cap DOMAIN users' :
        users'[i].is_superuser = users[i].is_superuser
  /\ \A i \in DOMAIN users' \ DOMAIN users : ~users'[i].is_superuser
  /\ Privileged(users') \subseteq Privileged(users)

\* C27: no API request changes the privileged flag of an identity: a user
\* created through the API is not privileged, update_user leaves the flag as
\* it is, and the set of privileged ids never grows.
C27_PrivilegedFlagKept == [][PrivilegedFlagKept]_vars

\* the superuser created a user, who is stored without the privileged flag
C27_Witness ==
  /\ resp.route = "create_user"
  /\ resp.status_code = HTTP_201_CREATED
  /\ \E i \in DOMAIN users \ DOMAIN pre : ~users[i].is_superuser

\* a user record was updated and kept its flag
C27_WitnessUpdated ==
  /\ resp.route = "update_user"
  /\ resp.status_code = HTTP_200_OK
  /\ users # pre
  /\ Privileged(users) = Privileged(pre)

(* ==================== properties: disabled identities ================== *)
\* the identity the guard of the request just handled resolved from the token,
\* in the store the request found
ResolvedOnArrival ==
  LET subject == verify_token(resp'.token, resp'.at)
  IN IF subject = None THEN NoUser ELSE get_user_by_username(users, subject)

\* one step: a request whose guard found its identity disabled writes nothing
DisabledWritesNothing ==
  (/\ resp'.route \notin {"none", "login"}
   /\ ResolvedOnArrival # NoUser
   /\ ~users[ResolvedOnArrival].is_active)
    => /\ users' = users
       /\ posts' = posts
       /\ categories' = categories

\* C28: a request made on behalf of an identity whose active flag is false
\* when its guard runs changes no stored user, post or category; a disabled
\* identity cannot re-enable itself.
C28_DisabledWritesNothing == [][DisabledWritesNothing]_vars

\* a disabled identity asked to set its own active flag and was refused
C28_Witness ==
  /\ resp.route = "update_user"
  /\ Subject # None
  /\ \E i \in Named : ~pre[i].is_active /\ ~users[i].is_active
  /\ resp.status_code = HTTP_400_BAD_REQUEST
  /\ resp.detail = "account disabled"

\* a disabled superuser asked for a category to be created and was refused
C28_WitnessCategory ==
  /\ resp.route = "create_category"
  /\ Subject # None
  /\ \E i \in Named : ~pre[i].is_active /\ pre[i].is_superuser
  /\ resp.status_code = HTTP_400_BAD_REQUEST

\* a disabled identity asked for a post to be created and was refused
C28_WitnessPost ==
  /\ resp.route = "create_post"
  /\ Subject # None
  /\ \E i \in Named : ~pre[i].is_active
  /\ resp.status_code = HTTP_400_BAD_REQUEST

(* ================== properties: unique usernames and emails ============ *)
Unique(U) ==
  \A i, j \in DOMAIN U :
    i # j => (U[i].username # U[j].username /\ U[i].email # U[j].email)

\* the username and email the waiting request q asks to store, and for whom
Asked(q) ==
  IF q.route = "create_user"
  THEN [id |-> NoUser, username |-> q.username, email |-> q.email]
  ELSE [id |-> q.user_id,
        username |-> IF "username" \in q.user_update.fields
                     THEN q.user_update.username ELSE None,
        email |-> IF "email" \in q.user_update.fields
                  THEN q.user_update.email ELSE None]

\* another stored identity has the username or the email asked for
TakenByAnother(U, asked) ==
  \E j \in DOMAIN U \ {asked.id} :
    U[j].username = asked.username \/ U[j].email = asked.email

\* one step of interleaved create_user and update_user requests
UniqueStep ==
  /\ Unique(users) /\ Unique(users')
  /\ \A slot \in Slots :
        (/\ inflight[slot] # Idle /\ inflight'[slot] = Idle
         /\ TakenByAnother(users, Asked(inflight[slot])))
          => /\ users' = users
             /\ resp'.status_code \notin {HTTP_200_OK, HTTP_201_CREATED}
  /\ (resp' # resp /\ resp'.detail \in {"username exists", "email exists"})
        => users' = users

\* C29: in every interleaving of create_user and update_user requests no two
\* stored identities share a username or an email, and a request for a
\* username or an email that another identity holds is refused and leaves
\* the store as it was.
C29_UniqueUnderInterleaving == [][UniqueStep]_vars

\* a request passed its lookups, another request took the name first, and
\* the commit was refused by the database
C29_Witness ==
  /\ resp.route \in {"create_user", "update_user"}
  /\ resp.status_code = HTTP_500_INTERNAL_SERVER_ERROR
  /\ resp.detail = "IntegrityError"
  /\ users = pre

\* two requests are between their lookups and their commit, asking for the
\* same username
C29_WitnessRacing ==
  \E a, b \in Slots :
    /\ a # b
    /\ inflight[a] # Idle /\ inflight[b] # Idle
    /\ Asked(inflight[a]).username = Asked(inflight[b]).username
    /\ Asked(inflight[a]).username # None

(* ====================== properties: delete category ==================== *)
\* one step of DELETE /categories/{category_id} sent by a superuser
DeleteCategoryAsSpecified ==
  (resp'.route = "delete_category" /\ resp'.user # NoUser) =>
    LET id == preq'.category_id
    IN IF id \notin DOMAIN categories
       THEN /\ resp'.status_code = HTTP_404_NOT_FOUND
            /\ categories' = categories
       ELSE IF \E p \in DOMAIN posts : posts[p].category_id = id
       THEN /\ resp'.status_code = HTTP_400_BAD_REQUEST
            /\ categories' = categories
       ELSE /\ resp'.status_code = HTTP_200_OK
            /\ id \notin DOMAIN categories'

\* C30: for a superuser, the delete-category route removes an existing
\* category and reports success when no post references it, answers 400 and
\* leaves it in place when a post references it, and answers 404 for a
\* category that does not exist.
C30_DeleteCategory == [][DeleteCategoryAsSpecified]_vars
====
